---- MODULE Spec2Model ----
(***************************************************************************)
(* Model of src/src/recorder/handle_signal.c: the recorder's handling of   *)
(* one tracee stop with a pending signal (handle_signal and its helpers    *)
(* try_handle_rdtsc, try_handle_shared_mmap_access, is_deterministic_signal*)
(* and record_signal), together with the tracee and the collaborators the  *)
(* file calls (ptrace, the performance counters, the trace writer).        *)
(***************************************************************************)
EXTENDS Integers, Sequences, FiniteSets, TLC

(* ------------------------------------------------------------------ *)
(* Signal numbers (<signal.h>, i386 Linux) used by the file.           *)
(* ------------------------------------------------------------------ *)
SIGILL == 4
SIGTRAP == 5
SIGBUS == 7
SIGFPE == 8
SIGUSR1 == 10
SIGSEGV == 11
SIGSTKFLT == 16
SIGIO == 29

(* Event tags and limits declared in the headers the file includes.     *)
DET_SIGNAL_BIT == 128
SIG_SEGV_MMAP_READ == 0 - 1021
SIG_SEGV_MMAP_WRITE == 0 - 1022
SIG_SEGV_RDTSC == 0 - 1023
USR_SCHED == 0 - 1025
MAX_RECORD_INTERVAL == 2
FRAME_SIZE == 1024

(* ------------------------------------------------------------------ *)
(* Bounds of the model.                                                *)
(* ------------------------------------------------------------------ *)
\* instruction pointers of a stop are 0..MaxEip
MaxEip == 2
\* fault addresses are 0..MaxAddr
MaxAddr == 1
\* si_code ranges over -MaxCode..MaxCode
MaxCode == 1
\* signal numbers 1..MaxSigno in the classifier runs
MaxSigno == 31
\* stops processed one after the other on the same context
MaxStops == 2
\* the count of drain iterations saturates here
MaxDrain == 2

VARIABLES
    pc,           \* position of the recorder inside handle_signal
    sig,          \* handle_signal's local |sig| (line 195)
    status,       \* ctx->status
    child_regs,   \* ctx->child_regs, the recorder's register snapshot
    child_sig,    \* ctx->child_sig
    event,        \* ctx->event
    hpc,          \* ctx->hpc: [insts, rbc]
    mmap_event,   \* handle_signal's local |mmap_event| (line 212)
    tracee,       \* "stopped" or "running"
    step_sig,     \* the signal handed to the latest single-step request
    regs,         \* the tracee's register file [eip, eax, edx, esp]
    wstatus,      \* the wait status of the tracee's latest stop
    siginfo,      \* the kernel's siginfo of the latest stop
    inst,         \* the decoded instruction at the tracee's eip
    mem,          \* the word of the protected shared mapping
    trace_log,    \* what the trace writer was given during this stop
    ops,          \* collaborator calls made while classifying and recording
    event_writes, \* the values stored to ctx->event during this stop
    steps,        \* drain iterations of this stop (saturating at MaxDrain)
    stops         \* stops handed to handle_signal so far

vars == <<pc, sig, status, child_regs, child_sig, event, hpc, mmap_event,
          tracee, step_sig, regs, wstatus, siginfo, inst, mem, trace_log, ops,
          event_writes, steps, stops>>

(* ------------------------------------------------------------------ *)
(* The tracee, the kernel and the decoder.                             *)
(* ------------------------------------------------------------------ *)
\* 64-bit counter values are held as four 16-bit limbs, least significant
\* first; registers are the 32-bit |long int| fields of user_regs_struct.
Limb == 256 * 256
Limbs == 0..(Limb - 1)

\* The |long int| whose bit pattern is the 32-bit value lo + 2^16 * hi.
ToLong(lo, hi) ==
    IF hi >= Limb \div 2 THEN lo + Limb * (hi - Limb) ELSE lo + Limb * hi

\* The two 16-bit limbs of the bit pattern of a |long int|.
Limbs32(v) == << v % Limb, (v \div Limb) % Limb >>

\* current_time & 0xffffffff and current_time >> 32 (lines 57-58)
Lo32(t) == ToLong(t[1], t[2])
Hi32(t) == ToLong(t[3], t[4])

Min(a, b) == IF a <= b THEN a ELSE b

\* The wait status of a tracee stopped by signal s: (s << 8) | 0x7f.
WStopped(s) == s * 256 + 127

\* signal_pending(status): the stop signal of a wait status, 0 when the
\* status carries none, a negative value for a failed wait.
signal_pending(st) ==
    IF st <= 0 THEN st ELSE (st \div 256) % 256

\* Bitwise or of two naturals.
RECURSIVE BitOr(_, _)
BitOr(a, b) ==
    IF a = 0 THEN b
    ELSE IF b = 0 THEN a
    ELSE (IF a % 2 = 1 \/ b % 2 = 1 THEN 1 ELSE 0) + 2 * BitOr(a \div 2, b \div 2)

\* strncmp(a, b, n) == 0 on NUL-terminated strings held as character sequences.
Ch(a, i) == IF i <= Len(a) THEN a[i] ELSE "NUL"
RECURSIVE StrNEqFrom(_, _, _, _)
StrNEqFrom(a, b, i, n) ==
    IF i > n THEN TRUE
    ELSE IF Ch(a, i) # Ch(b, i) THEN FALSE
    ELSE IF Ch(a, i) = "NUL" THEN TRUE
    ELSE StrNEqFrom(a, b, i + 1, n)
strncmp_eq(a, b, n) == StrNEqFrom(a, b, 1, n)

RDTSC == <<"r", "d", "t", "s", "c">>
RDTSCP == <<"r", "d", "t", "s", "c", "p">>
MOV_LOAD == <<"m", "o", "v", "l">>
MOV_STORE == <<"m", "o", "v", "s">>
NOP == <<"n", "o", "p">>

StopSignals == {SIGILL, SIGTRAP, SIGUSR1, SIGSEGV, SIGIO}
Codes == (0 - MaxCode)..MaxCode
Addrs == 0..MaxAddr
Eips == 0..MaxEip
\* 0x0000000100000002, 0x00000000ffffffff, 0x8000000300010000
TscSamples == { <<2, 0, 1, 0>>, <<Limb - 1, Limb - 1, 0, 0>>, <<0, 1, 3, Limb \div 2>> }
Budgets == {MAX_RECORD_INTERVAL - 1, MAX_RECORD_INTERVAL, MAX_RECORD_INTERVAL + 1}

\* WRAP_SYSCALLS_CALLSITE_IN_WRAPPER(eip, ctx): eip lies in the wrapper code.
WRAP_SYSCALLS_CALLSITE_IN_WRAPPER(eip) == eip = 1

\* is_protected_map(ctx, addr): addr lies in a region the recorder protected.
is_protected_map(addr) == addr = 1

\* is_write_mem_instruction(tid, 0, &size)
is_write_mem_instruction(i) == i.mnemonic = MOV_STORE

NoInst == [mnemonic |-> NOP, size |-> 2]
Insts ==
    { [mnemonic |-> RDTSC, size |-> 2], [mnemonic |-> RDTSC, size |-> 3],
      [mnemonic |-> RDTSCP, size |-> 3], [mnemonic |-> MOV_LOAD, size |-> 2],
      [mnemonic |-> MOV_STORE, size |-> 3], [mnemonic |-> NOP, size |-> 2] }
\* The registers of a stop: eax and edx hold values no counter sample has.
StackTop == 96
SigFrame == 32
RegFiles == [eip : Eips, eax : {5}, edx : {6}, esp : {StackTop}]

\* The kernel's siginfo of a stop on signal s.  The fault address and the
\* instruction at eip are read by the recorder for SIGSEGV stops only.
SigInfos(s) ==
    [si_signo : {s}, si_code : Codes, si_addr : IF s = SIGSEGV THEN Addrs ELSE {0}]
InstsAt(s) == IF s = SIGSEGV THEN Insts ELSE {NoInst}

\* The retired-branch count is read for SIGIO stops only.
BudgetsAt(s) == IF s = SIGIO THEN Budgets ELSE {0}

StopsOn(sigs) ==
    UNION { { [wstatus |-> WStopped(s), siginfo |-> si, regs |-> r, inst |-> i,
               rbc |-> b] :
                si \in SigInfos(s), r \in RegFiles, i \in InstsAt(s),
                b \in BudgetsAt(s) } : s \in sigs }

\* A wait status that carries no signal (0) or reports a failed wait (-1).
NoSignalStops ==
    { [wstatus |-> w, siginfo |-> [si_signo |-> SIGTRAP, si_code |-> 1, si_addr |-> 0],
       regs |-> r, inst |-> NoInst, rbc |-> 0] : w \in {0, 0 - 1}, r \in RegFiles }

EntryStops == StopsOn(StopSignals) \cup NoSignalStops

(* ------------------------------------------------------------------ *)
(* Pure parts of the handlers.                                         *)
(* ------------------------------------------------------------------ *)
\* is_deterministic_signal (lines 130-157)
is_deterministic_signal_NonNegative(si) ==
    IF si.si_signo \in {SIGILL, SIGTRAP, SIGBUS, SIGFPE, SIGSEGV, SIGSTKFLT}
    THEN si.si_code >= 0
    ELSE FALSE
is_deterministic_signal(si) ==
    IF si.si_signo \in {SIGILL, SIGTRAP, SIGBUS, SIGFPE, SIGSEGV, SIGSTKFLT}
    THEN si.si_code > 0
    ELSE FALSE

\* The tag record_signal stores for |s| given the fetched siginfo (lines 170-174).
SignalEvent(s, si) ==
    IF is_deterministic_signal(si) THEN 0 - BitOr(s, DET_SIGNAL_BIT) ELSE 0 - s

\* The register file try_handle_rdtsc writes back (lines 56-65).
RdtscRegs_HalvesSwapped(r, current_time, size) ==
    [r EXCEPT !.eax = Hi32(current_time),
              !.edx = Lo32(current_time),
              !.eip = r.eip + size]
RdtscRegs(r, current_time, size) ==
    [r EXCEPT !.eax = Lo32(current_time),
              !.edx = Hi32(current_time),
              !.eip = r.eip + size]

\* The tag try_handle_shared_mmap_access stores (line 106).
MmapEvent_ReadIsZero(i) ==
    IF is_write_mem_instruction(i) THEN SIG_SEGV_MMAP_WRITE ELSE 0
MmapEvent_KindsSwapped(i) ==
    IF is_write_mem_instruction(i) THEN SIG_SEGV_MMAP_READ ELSE SIG_SEGV_MMAP_WRITE
MmapEvent(i) ==
    IF is_write_mem_instruction(i) THEN SIG_SEGV_MMAP_WRITE ELSE SIG_SEGV_MMAP_READ

\* emulate_child_inst(ctx, 0): the access happens against the tracee's
\* memory and registers and the instruction pointer moves past it.
EmulatedRegs(r, i, m) ==
    [r EXCEPT !.eip = r.eip + i.size,
              !.eax = IF is_write_mem_instruction(i) THEN r.eax ELSE m]
EmulatedMem(r, i, m) ==
    IF is_write_mem_instruction(i) THEN 1 - m ELSE m

\* read_rbc(ctx->hpc) >= MAX_RECORD_INTERVAL (line 225)
BudgetUsedUp_Strict(h) == h.rbc > MAX_RECORD_INTERVAL
BudgetUsedUp(h) == h.rbc >= MAX_RECORD_INTERVAL

\* frame_size of record_signal (lines 184-187)
FrameSize_Always(insts) == FRAME_SIZE
FrameSize(insts) == IF insts = 0 THEN FRAME_SIZE ELSE 0

(* ------------------------------------------------------------------ *)
(* Initial state: the tracee sits at its first stop, the caller has    *)
(* waited for it and read its registers.                               *)
(* ------------------------------------------------------------------ *)
Init ==
    \E st \in EntryStops :
        /\ pc = "idle"
        /\ sig = 0
        /\ status = st.wstatus
        /\ child_regs = st.regs
        /\ child_sig = 0
        /\ event = 0
        /\ hpc = [insts |-> 1, rbc |-> st.rbc]
        /\ mmap_event = 0
        /\ tracee = "stopped"
        /\ step_sig = 0
        /\ regs = st.regs
        /\ wstatus = st.wstatus
        /\ siginfo = st.siginfo
        /\ inst = st.inst
        /\ mem = 0
        /\ trace_log = <<>>
        /\ ops = <<>>
        /\ event_writes = <<>>
        /\ steps = 0
        /\ stops = 1

(* ------------------------------------------------------------------ *)
(* The tracee.                                                         *)
(* ------------------------------------------------------------------ *)
\* The tracee runs one single-step and stops again.  The stop reports the
\* completed step (SIGTRAP), a fault of the stepped instruction (SIGSEGV), or
\* a signal that arrived meanwhile (SIGUSR1).  A step that delivers a signal
\* to an installed handler retires no instruction and pushes the handler's
\* frame; any other step retires one instruction.
StepSignals == {SIGTRAP, SIGSEGV, SIGUSR1}

TraceeStep ==
    /\ tracee = "running"
    /\ \E st \in StopsOn(StepSignals), entered \in BOOLEAN :
        /\ entered => step_sig > 0
        /\ regs' = [st.regs EXCEPT !.esp = IF entered THEN regs.esp - SigFrame
                                                     ELSE regs.esp]
        /\ wstatus' = st.wstatus
        /\ siginfo' = st.siginfo
        /\ inst' = st.inst
        /\ hpc' = [hpc EXCEPT !.insts = IF entered THEN hpc.insts
                                                   ELSE Min(hpc.insts + 1, 1)]
    /\ tracee' = "stopped"
    /\ UNCHANGED <<pc, sig, status, child_regs, child_sig, event, mmap_event,
                   step_sig, mem, trace_log, ops, event_writes, steps, stops>>

(* ------------------------------------------------------------------ *)
(* handle_signal (lines 193-237)                                       *)
(* ------------------------------------------------------------------ *)
\* line 195
HandleSignalEntry ==
    /\ pc = "idle"
    /\ sig' = signal_pending(status)
    /\ pc' = "drain"
    /\ UNCHANGED <<status, child_regs, child_sig, event, hpc, mmap_event,
                   tracee, step_sig, regs, wstatus, siginfo, inst, mem,
                   trace_log, ops, event_writes, steps, stops>>

\* lines 200-203: the loop test holds, single-step with signal 0
DrainSingleStep_Redelivers ==
    /\ pc = "drain"
    /\ WRAP_SYSCALLS_CALLSITE_IN_WRAPPER(child_regs.eip)
    /\ tracee' = "running"
    /\ step_sig' = sig
    /\ steps' = Min(steps + 1, MaxDrain)
    /\ pc' = "drain_wait"
    /\ UNCHANGED <<sig, status, child_regs, child_sig, event, hpc, mmap_event,
                   regs, wstatus, siginfo, inst, mem, trace_log, ops,
                   event_writes, stops>>
DrainSingleStep ==
    /\ pc = "drain"
    /\ WRAP_SYSCALLS_CALLSITE_IN_WRAPPER(child_regs.eip)
    /\ tracee' = "running"
    /\ step_sig' = 0
    /\ steps' = Min(steps + 1, MaxDrain)
    /\ pc' = "drain_wait"
    /\ UNCHANGED <<sig, status, child_regs, child_sig, event, hpc, mmap_event,
                   regs, wstatus, siginfo, inst, mem, trace_log, ops,
                   event_writes, stops>>

\* line 204: sys_waitpid blocks until the tracee has stopped
DrainWait_NoBlock ==
    /\ pc = "drain_wait"
    /\ status' = wstatus
    /\ pc' = "drain_read"
    /\ UNCHANGED <<sig, child_regs, child_sig, event, hpc, mmap_event,
                   tracee, step_sig, regs, wstatus, siginfo, inst, mem,
                   trace_log, ops, event_writes, steps, stops>>
DrainWait ==
    /\ pc = "drain_wait"
    /\ tracee = "stopped"
    /\ status' = wstatus
    /\ pc' = "drain_read"
    /\ UNCHANGED <<sig, child_regs, child_sig, event, hpc, mmap_event,
                   tracee, step_sig, regs, wstatus, siginfo, inst, mem,
                   trace_log, ops, event_writes, steps, stops>>

\* line 205: read_child_registers into ctx->child_regs
DrainReadRegs ==
    /\ pc = "drain_read"
    /\ child_regs' = regs
    /\ pc' = "drain"
    /\ UNCHANGED <<sig, status, child_sig, event, hpc, mmap_event,
                   tracee, step_sig, regs, wstatus, siginfo, inst, mem,
                   trace_log, ops, event_writes, steps, stops>>

\* lines 210-211: the loop test fails and the switch takes case SIGSEGV
SwitchSegv_MmapFirst ==
    /\ pc = "drain"
    /\ ~WRAP_SYSCALLS_CALLSITE_IN_WRAPPER(child_regs.eip)
    /\ sig = SIGSEGV
    /\ pc' = "try_mmap"
    /\ UNCHANGED <<sig, status, child_regs, child_sig, event, hpc, mmap_event,
                   tracee, step_sig, regs, wstatus, siginfo, inst, mem,
                   trace_log, ops, event_writes, steps, stops>>
SwitchSegv ==
    /\ pc = "drain"
    /\ ~WRAP_SYSCALLS_CALLSITE_IN_WRAPPER(child_regs.eip)
    /\ sig = SIGSEGV
    /\ pc' = "try_rdtsc"
    /\ UNCHANGED <<sig, status, child_regs, child_sig, event, hpc, mmap_event,
                   tracee, step_sig, regs, wstatus, siginfo, inst, mem,
                   trace_log, ops, event_writes, steps, stops>>

\* lines 224-231: case SIGIO with the budget used up
SwitchSched_KeepsChildSig ==
    /\ pc = "drain"
    /\ ~WRAP_SYSCALLS_CALLSITE_IN_WRAPPER(child_regs.eip)
    /\ sig = SIGIO
    /\ BudgetUsedUp(hpc)
    /\ event' = USR_SCHED
    /\ event_writes' = Append(event_writes, USR_SCHED)
    /\ ops' = Append(ops, <<"read_rbc">>)
    /\ pc' = "done"
    /\ UNCHANGED <<sig, status, child_regs, child_sig, hpc, mmap_event,
                   tracee, step_sig, regs, wstatus, siginfo, inst, mem,
                   trace_log, steps, stops>>
SwitchSched ==
    /\ pc = "drain"
    /\ ~WRAP_SYSCALLS_CALLSITE_IN_WRAPPER(child_regs.eip)
    /\ sig = SIGIO
    /\ BudgetUsedUp(hpc)
    /\ event' = USR_SCHED
    /\ event_writes' = Append(event_writes, USR_SCHED)
    /\ child_sig' = 0
    /\ ops' = Append(ops, <<"read_rbc">>)
    /\ pc' = "done"
    /\ UNCHANGED <<sig, status, child_regs, hpc, mmap_event,
                   tracee, step_sig, regs, wstatus, siginfo, inst, mem,
                   trace_log, steps, stops>>

\* lines 224-232 with the budget not used up, and every other signal: the
\* switch is left for record_signal (line 236)
SwitchDefault ==
    /\ pc = "drain"
    /\ ~WRAP_SYSCALLS_CALLSITE_IN_WRAPPER(child_regs.eip)
    /\ sig # SIGSEGV
    /\ sig = SIGIO => ~BudgetUsedUp(hpc)
    /\ ops' = IF sig = SIGIO THEN Append(ops, <<"read_rbc">>) ELSE ops
    /\ pc' = "record"
    /\ UNCHANGED <<sig, status, child_regs, child_sig, event, hpc, mmap_event,
                   tracee, step_sig, regs, wstatus, siginfo, inst, mem,
                   trace_log, event_writes, steps, stops>>

(* ------------------------------------------------------------------ *)
(* try_handle_rdtsc (lines 36-73) as called at line 213                *)
(* ------------------------------------------------------------------ *)
\* line 41: the assertion on the signal re-derived from ctx->status fails
TryRdtscAssertFails ==
    /\ pc = "try_rdtsc"
    /\ signal_pending(status) = SIGTRAP
    /\ pc' = "aborted"
    /\ UNCHANGED <<sig, status, child_regs, child_sig, event, hpc, mmap_event,
                   tracee, step_sig, regs, wstatus, siginfo, inst, mem,
                   trace_log, ops, event_writes, steps, stops>>

\* lines 43-45, and lines 48-52 and 70-72 with an instruction that is not
\* rdtsc: returns 0, handle_signal goes on to line 217
TryRdtscNotHandled_TagsAnyway ==
    /\ pc = "try_rdtsc"
    /\ signal_pending(status) # SIGTRAP
    /\ LET s == signal_pending(status)
           fetched == ~(s <= 0 \/ s # SIGSEGV)
       IN  /\ fetched => ~strncmp_eq(inst.mnemonic, RDTSC, 5)
           /\ ops' = IF fetched THEN Append(ops, <<"get_inst">>) ELSE ops
    /\ event' = SIG_SEGV_RDTSC
    /\ pc' = "try_mmap"
    /\ UNCHANGED <<sig, status, child_regs, child_sig, hpc, mmap_event,
                   tracee, step_sig, regs, wstatus, siginfo, inst, mem,
                   trace_log, event_writes, steps, stops>>
TryRdtscNotHandled ==
    /\ pc = "try_rdtsc"
    /\ signal_pending(status) # SIGTRAP
    /\ LET s == signal_pending(status)
           fetched == ~(s <= 0 \/ s # SIGSEGV)
       IN  /\ fetched => ~strncmp_eq(inst.mnemonic, RDTSC, 5)
           /\ ops' = IF fetched THEN Append(ops, <<"get_inst">>) ELSE ops
    /\ pc' = "try_mmap"
    /\ UNCHANGED <<sig, status, child_regs, child_sig, event, hpc, mmap_event,
                   tracee, step_sig, regs, wstatus, siginfo, inst, mem,
                   trace_log, event_writes, steps, stops>>

\* lines 52-68 and 214-216: the instruction is rdtsc, it is emulated with one
\* sample of the host's counter
TryRdtscHandled ==
    /\ pc = "try_rdtsc"
    /\ signal_pending(status) = SIGSEGV
    /\ strncmp_eq(inst.mnemonic, RDTSC, 5)
    /\ \E current_time \in TscSamples :
           regs' = RdtscRegs(regs, current_time, inst.size)
    /\ ops' = ops \o << <<"get_inst">>, <<"read_regs">>, <<"write_regs">> >>
    /\ event' = SIG_SEGV_RDTSC
    /\ event_writes' = event_writes \o <<SIG_SEGV_RDTSC, SIG_SEGV_RDTSC>>
    /\ child_sig' = 0
    /\ pc' = "done"
    /\ UNCHANGED <<sig, status, child_regs, hpc, mmap_event,
                   tracee, step_sig, wstatus, siginfo, inst, mem,
                   trace_log, steps, stops>>

(* ------------------------------------------------------------------ *)
(* try_handle_shared_mmap_access (lines 80-128) as called at line 217  *)
(* ------------------------------------------------------------------ *)
\* lines 86-88 and 92-98: returns 0, handle_signal breaks out of the switch
TryMmapNotHandled_TagsFirst ==
    /\ pc = "try_mmap"
    /\ signal_pending(status) # SIGTRAP
    /\ LET s == signal_pending(status)
           looked == ~(s <= 0 \/ s # SIGSEGV)
       IN  /\ looked => ~is_protected_map(siginfo.si_addr)
           /\ ops' = IF looked THEN Append(ops, <<"getsiginfo">>) ELSE ops
           /\ event' = IF looked THEN MmapEvent(inst) ELSE event
    /\ mmap_event' = 0
    /\ pc' = "record"
    /\ UNCHANGED <<sig, status, child_regs, child_sig, hpc,
                   tracee, step_sig, regs, wstatus, siginfo, inst, mem,
                   trace_log, event_writes, steps, stops>>
TryMmapNotHandled ==
    /\ pc = "try_mmap"
    /\ signal_pending(status) # SIGTRAP
    /\ LET s == signal_pending(status)
           looked == ~(s <= 0 \/ s # SIGSEGV)
       IN  /\ looked => ~is_protected_map(siginfo.si_addr)
           /\ ops' = IF looked THEN Append(ops, <<"getsiginfo">>) ELSE ops
    /\ mmap_event' = 0
    /\ pc' = "record"
    /\ UNCHANGED <<sig, status, child_regs, child_sig, event, hpc,
                   tracee, step_sig, regs, wstatus, siginfo, inst, mem,
                   trace_log, event_writes, steps, stops>>

\* lines 92-106: the fault address is protected, the tag is stored
TryMmapTag_EmulatesFirst ==
    /\ pc = "try_mmap"
    /\ signal_pending(status) = SIGSEGV
    /\ is_protected_map(siginfo.si_addr)
    /\ ops' = ops \o << <<"getsiginfo">>, <<"is_write_mem_instruction">> >>
    /\ pc' = "mmap_emulate"
    /\ UNCHANGED <<sig, status, child_regs, child_sig, event, hpc, mmap_event,
                   tracee, step_sig, regs, wstatus, siginfo, inst, mem,
                   trace_log, event_writes, steps, stops>>
TryMmapTag ==
    /\ pc = "try_mmap"
    /\ signal_pending(status) = SIGSEGV
    /\ is_protected_map(siginfo.si_addr)
    /\ event' = MmapEvent(inst)
    /\ event_writes' = Append(event_writes, MmapEvent(inst))
    /\ ops' = ops \o << <<"getsiginfo">>, <<"is_write_mem_instruction">> >>
    /\ pc' = "mmap_emulate"
    /\ UNCHANGED <<sig, status, child_regs, child_sig, hpc, mmap_event,
                   tracee, step_sig, regs, wstatus, siginfo, inst, mem,
                   trace_log, steps, stops>>

\* line 107: emulate_child_inst(ctx, 0)
MmapEmulate ==
    /\ pc = "mmap_emulate"
    /\ regs' = EmulatedRegs(regs, inst, mem)
    /\ mem' = EmulatedMem(regs, inst, mem)
    /\ ops' = Append(ops, <<"emulate_child_inst">>)
    /\ pc' = "mmap_return"
    /\ UNCHANGED <<sig, status, child_regs, child_sig, event, hpc, mmap_event,
                   tracee, step_sig, wstatus, siginfo, inst,
                   trace_log, event_writes, steps, stops>>

\* line 127 and lines 217-221: the returned tag is nonzero
MmapReturn ==
    /\ pc = "mmap_return"
    /\ mmap_event' = event
    /\ IF event # 0
       THEN /\ event_writes' = Append(event_writes, event)
            /\ child_sig' = 0
            /\ pc' = "done"
       ELSE /\ event_writes' = event_writes
            /\ child_sig' = child_sig
            /\ pc' = "record"
    /\ UNCHANGED <<sig, status, child_regs, event, hpc,
                   tracee, step_sig, regs, wstatus, siginfo, inst, mem,
                   trace_log, ops, steps, stops>>

(* ------------------------------------------------------------------ *)
(* record_signal (lines 159-191) as called at line 236                 *)
(* ------------------------------------------------------------------ *)
\* lines 163-165
RecordNothing ==
    /\ pc = "record"
    /\ sig <= 0
    /\ pc' = "done"
    /\ UNCHANGED <<sig, status, child_regs, child_sig, event, hpc, mmap_event,
                   tracee, step_sig, regs, wstatus, siginfo, inst, mem,
                   trace_log, ops, event_writes, steps, stops>>

\* lines 167-174
RecordTag ==
    /\ pc = "record"
    /\ sig > 0
    /\ child_sig' = sig
    /\ event' = SignalEvent(sig, siginfo)
    /\ event_writes' = Append(event_writes, SignalEvent(sig, siginfo))
    /\ ops' = ops \o << <<"set_child_sig", sig>>, <<"getsiginfo">> >>
    /\ pc' = "rec_event"
    /\ UNCHANGED <<sig, status, child_regs, hpc, mmap_event,
                   tracee, step_sig, regs, wstatus, siginfo, inst, mem,
                   trace_log, steps, stops>>

\* line 176
RecordEvent ==
    /\ pc = "rec_event"
    /\ trace_log' = Append(trace_log, [kind |-> "event", event |-> event,
                                       len |-> 0, addr |-> 0])
    /\ ops' = Append(ops, <<"record_event", event>>)
    /\ pc' = "rec_reset"
    /\ UNCHANGED <<sig, status, child_regs, child_sig, event, hpc, mmap_event,
                   tracee, step_sig, regs, wstatus, siginfo, inst, mem,
                   event_writes, steps, stops>>

\* line 177: the counters start a new window; the assertion of line 178
\* exists for a reset that leaves a count behind
ResetHpc ==
    /\ pc = "rec_reset"
    /\ \E left \in {0, 1} : hpc' = [insts |-> left, rbc |-> 0]
    /\ ops' = Append(ops, <<"reset_hpc", MAX_RECORD_INTERVAL>>)
    /\ pc' = "rec_assert"
    /\ UNCHANGED <<sig, status, child_regs, child_sig, event, mmap_event,
                   tracee, step_sig, regs, wstatus, siginfo, inst, mem,
                   trace_log, event_writes, steps, stops>>

\* line 178
AssertZeroInsts_Ignored ==
    /\ pc = "rec_assert"
    /\ pc' = "rec_step"
    /\ UNCHANGED <<sig, status, child_regs, child_sig, event, hpc, mmap_event,
                   tracee, step_sig, regs, wstatus, siginfo, inst, mem,
                   trace_log, ops, event_writes, steps, stops>>
AssertZeroInsts ==
    /\ pc = "rec_assert"
    /\ pc' = IF hpc.insts = 0 THEN "rec_step" ELSE "aborted"
    /\ UNCHANGED <<sig, status, child_regs, child_sig, event, hpc, mmap_event,
                   tracee, step_sig, regs, wstatus, siginfo, inst, mem,
                   trace_log, ops, event_writes, steps, stops>>

\* line 180
RecordSingleStep_NoSignal ==
    /\ pc = "rec_step"
    /\ tracee' = "running"
    /\ step_sig' = 0
    /\ ops' = Append(ops, <<"singlestep_sig", 0>>)
    /\ pc' = "rec_wait"
    /\ UNCHANGED <<sig, status, child_regs, child_sig, event, hpc, mmap_event,
                   regs, wstatus, siginfo, inst, mem,
                   trace_log, event_writes, steps, stops>>
RecordSingleStep ==
    /\ pc = "rec_step"
    /\ tracee' = "running"
    /\ step_sig' = sig
    /\ ops' = Append(ops, <<"singlestep_sig", sig>>)
    /\ pc' = "rec_wait"
    /\ UNCHANGED <<sig, status, child_regs, child_sig, event, hpc, mmap_event,
                   regs, wstatus, siginfo, inst, mem,
                   trace_log, event_writes, steps, stops>>

\* line 182
RecordWait ==
    /\ pc = "rec_wait"
    /\ tracee = "stopped"
    /\ status' = wstatus
    /\ ops' = Append(ops, <<"waitpid">>)
    /\ pc' = "rec_frame"
    /\ UNCHANGED <<sig, child_regs, child_sig, event, hpc, mmap_event,
                   tracee, step_sig, regs, wstatus, siginfo, inst, mem,
                   trace_log, event_writes, steps, stops>>

\* lines 184-190
RecordFrame ==
    /\ pc = "rec_frame"
    /\ trace_log' = Append(trace_log, [kind |-> "data", event |-> event,
                                       len |-> FrameSize(hpc.insts),
                                       addr |-> regs.esp])
    /\ ops' = ops \o << <<"read_insts">>, <<"read_regs">>,
                        <<"record_child_data", event>> >>
    /\ pc' = "done"
    /\ UNCHANGED <<sig, status, child_regs, child_sig, event, hpc, mmap_event,
                   tracee, step_sig, regs, wstatus, siginfo, inst, mem,
                   event_writes, steps, stops>>

(* ------------------------------------------------------------------ *)
(* The caller: after handle_signal returns the tracee is resumed, its  *)
(* next stop is waited for and its registers are read into the context.*)
(* ------------------------------------------------------------------ *)
NextStop ==
    /\ pc = "done"
    /\ stops < MaxStops
    /\ \E st \in EntryStops :
        /\ status' = st.wstatus
        /\ wstatus' = st.wstatus
        /\ siginfo' = st.siginfo
        /\ regs' = st.regs
        /\ child_regs' = st.regs
        /\ inst' = st.inst
        /\ hpc' = [insts |-> 1, rbc |-> st.rbc]
    /\ pc' = "idle"
    /\ sig' = 0
    /\ mmap_event' = 0
    /\ step_sig' = 0
    /\ trace_log' = <<>>
    /\ ops' = <<>>
    /\ event_writes' = <<>>
    /\ steps' = 0
    /\ stops' = stops + 1
    /\ UNCHANGED <<child_sig, event, tracee, mem>>

Next ==
    \/ TraceeStep
    \/ HandleSignalEntry
    \/ DrainSingleStep
    \/ DrainWait
    \/ DrainReadRegs
    \/ SwitchSegv
    \/ SwitchSched
    \/ SwitchDefault
    \/ TryRdtscAssertFails
    \/ TryRdtscNotHandled
    \/ TryRdtscHandled
    \/ TryMmapNotHandled
    \/ TryMmapTag
    \/ MmapEmulate
    \/ MmapReturn
    \/ RecordNothing
    \/ RecordTag
    \/ RecordEvent
    \/ ResetHpc
    \/ AssertZeroInsts
    \/ RecordSingleStep
    \/ RecordWait
    \/ RecordFrame

Spec == Init /\ [][Next]_vars

\* Several stops processed one after the other on the same context.
StopsSpec == Init /\ [][Next \/ NextStop]_vars

\* The classifier on its own: record_signal's tagging step applied to every
\* signal number and every fault info of the bounded ranges.
ClassifierInit ==
    /\ pc = "record"
    /\ sig \in 1..MaxSigno
    /\ siginfo \in [si_signo : 1..MaxSigno, si_code : Codes, si_addr : {0}]
    /\ status = WStopped(sig)
    /\ wstatus = WStopped(sig)
    /\ child_regs = [eip |-> 0, eax |-> 5, edx |-> 6, esp |-> StackTop]
    /\ regs = [eip |-> 0, eax |-> 5, edx |-> 6, esp |-> StackTop]
    /\ child_sig = 0
    /\ event = 0
    /\ hpc = [insts |-> 1, rbc |-> 0]
    /\ mmap_event = 0
    /\ tracee = "stopped"
    /\ step_sig = 0
    /\ inst = NoInst
    /\ mem = 0
    /\ trace_log = <<>>
    /\ ops = <<>>
    /\ event_writes = <<>>
    /\ steps = 0
    /\ stops = 1

ClassifierSpec == ClassifierInit /\ [][RecordTag]_vars

\* try_handle_rdtsc on its own: called on a context whose status is any wait
\* status of the bounded ranges, a stop on SIGTRAP and a status without a
\* signal included.
RdtscInit ==
    \E st \in EntryStops :
        /\ pc = "try_rdtsc"
        /\ sig = SIGSEGV
        /\ status = st.wstatus
        /\ child_regs = st.regs
        /\ child_sig = 0
        /\ event = 0
        /\ hpc = [insts |-> 1, rbc |-> st.rbc]
        /\ mmap_event = 0
        /\ tracee = "stopped"
        /\ step_sig = 0
        /\ regs = st.regs
        /\ wstatus = st.wstatus
        /\ siginfo = st.siginfo
        /\ inst = st.inst
        /\ mem = 0
        /\ trace_log = <<>>
        /\ ops = <<>>
        /\ event_writes = <<>>
        /\ steps = 0
        /\ stops = 1

RdtscSpec ==
    RdtscInit /\ [][TryRdtscAssertFails \/ TryRdtscNotHandled \/ TryRdtscHandled]_vars

(* ------------------------------------------------------------------ *)
(* Vocabulary of the properties.                                       *)
(* ------------------------------------------------------------------ *)
SyncFaultClass == {SIGILL, SIGTRAP, SIGBUS, SIGFPE, SIGSEGV, SIGSTKFLT}
SyntheticTags == {SIG_SEGV_RDTSC, SIG_SEGV_MMAP_READ, SIG_SEGV_MMAP_WRITE}
DetTag(s) == 0 - BitOr(s, DET_SIGNAL_BIT)
AsyncTag(s) == 0 - s
GenuineTags(s) == {DetTag(s), AsyncTag(s)}
OutcomeTags(s) == SyntheticTags \cup {USR_SCHED} \cup GenuineTags(s)

HasOp(name) == \E i \in 1..Len(ops) : ops[i][1] = name
CountOp(name) == Cardinality({i \in 1..Len(ops) : ops[i][1] = name})
DrainPcs == {"drain", "drain_wait", "drain_read"}
Returned == pc = "done"

\* The tracee has not run since handle_signal was entered: what it is
\* stopped on is still the stop handle_signal was called for.
Undisturbed == steps = 0 /\ ~HasOp("singlestep_sig")

(* ------------------------------------------------------------------ *)
(* C1                                                                  *)
(* ------------------------------------------------------------------ *)
\* C1 as stated: every invocation that returns, whatever the pending signal
\* (0 and negative values included), has stored one outcome tag in ctx->event.
C1_EveryInvocationTags ==
    Returned => /\ event_writes # <<>>
                /\ event \in OutcomeTags(sig)

\* C1 amended: an invocation whose pending signal is > 0 and that returns has
\* stored one outcome tag in ctx->event (every store of the invocation is of
\* that tag), and exactly one of {synthetic fault resolved, scheduler
\* preemption recorded, genuine signal recorded} has happened; with a pending
\* signal <= 0 it returns without storing to ctx->event.
C1_PositiveSignalTags ==
    Returned =>
        IF sig > 0
        THEN /\ event_writes # <<>>
             /\ \A i \in 1..Len(event_writes) : event_writes[i] = event
             /\ event \in OutcomeTags(sig)
             /\ (event \in GenuineTags(sig)) <=> (Len(trace_log) = 2)
             /\ (event \in SyntheticTags \cup {USR_SCHED}) <=> (trace_log = <<>>)
             /\ (event \in SyntheticTags) <=>
                    (HasOp("write_regs") \/ HasOp("emulate_child_inst"))
             /\ (event = USR_SCHED) => ~HasOp("get_inst")
        ELSE /\ event_writes = <<>>
             /\ trace_log = <<>>

\* A shared-memory fault was resolved: ctx->event was stored twice, by the
\* interceptor and by handle_signal, with the same tag.
C1_Witness ==
    /\ Returned
    /\ sig = SIGSEGV
    /\ event_writes = <<SIG_SEGV_MMAP_READ, SIG_SEGV_MMAP_READ>>

(* ------------------------------------------------------------------ *)
(* C2                                                                  *)
(* ------------------------------------------------------------------ *)
\* C2: is_deterministic_signal is true exactly for the six synchronous-fault
\* signal numbers with si_code > 0: record_signal stores the deterministic
\* tag exactly then and the asynchronous tag in every other case.
C2_ClassifierPolicy ==
    pc = "rec_event" =>
        IF siginfo.si_signo \in {4, 5, 7, 8, 11, 16} /\ siginfo.si_code > 0
        THEN event = DetTag(sig)
        ELSE event = AsyncTag(sig)

\* a stack fault with a kernel origin code was classified
C2_Witness ==
    /\ pc = "rec_event"
    /\ siginfo.si_signo = SIGSTKFLT
    /\ siginfo.si_code > 0
    /\ event = DetTag(sig)

(* ------------------------------------------------------------------ *)
(* C3                                                                  *)
(* ------------------------------------------------------------------ *)
\* C3 as stated: a genuine-signal outcome for |sig| is the deterministic tag
\* only if |sig| itself is in the synchronous-fault class, and ctx->child_sig
\* is |sig|, also for stops the drain loop single-stepped.
C3_DeterministicOnlyForFaults ==
    (Returned /\ Len(trace_log) = 2) =>
        /\ child_sig = sig
        /\ event \in GenuineTags(sig)
        /\ (event = DetTag(sig)) => sig \in SyncFaultClass

(* ------------------------------------------------------------------ *)
(* C4                                                                  *)
(* ------------------------------------------------------------------ *)
IsRdtsc(i) == strncmp_eq(i.mnemonic, RDTSC, 5)

\* C4: a tracee stopped on SIGSEGV at an instruction decoded as rdtsc of
\* length n leaves handle_signal with eax = the low 32 bits and edx = the high
\* 32 bits of one counter sample, eip advanced by n, the timestamp-trap tag in
\* ctx->event and ctx->child_sig = 0.
C4_RdtscEmulation ==
    /\ [][ (/\ pc = "try_rdtsc"
            /\ signal_pending(status) = SIGSEGV
            /\ inst.mnemonic = RDTSC)
           => (/\ pc' = "done"
               /\ \E t \in TscSamples :
                      /\ Limbs32(regs'.eax) = <<t[1], t[2]>>
                      /\ Limbs32(regs'.edx) = <<t[3], t[4]>>
               /\ regs'.eip = regs.eip + inst.size
               /\ regs'.esp = regs.esp
               /\ event' = SIG_SEGV_RDTSC
               /\ child_sig' = 0) ]_vars
    /\ [] ( (/\ Returned
             /\ Undisturbed
             /\ sig = SIGSEGV
             /\ inst.mnemonic = RDTSC)
            => (/\ event = SIG_SEGV_RDTSC
                /\ child_sig = 0
                /\ regs.eip = child_regs.eip + inst.size
                /\ \E t \in TscSamples :
                       /\ Limbs32(regs.eax) = <<t[1], t[2]>>
                       /\ Limbs32(regs.edx) = <<t[3], t[4]>>) )

\* scenario 1: counter 0x100000002 at a 2-byte rdtsc
C4_Witness ==
    /\ Returned
    /\ sig = SIGSEGV
    /\ inst = [mnemonic |-> RDTSC, size |-> 2]
    /\ regs.eax = 2
    /\ regs.edx = 1
    /\ regs.eip = child_regs.eip + 2
    /\ event = SIG_SEGV_RDTSC
    /\ child_sig = 0

(* ------------------------------------------------------------------ *)
(* C5                                                                  *)
(* ------------------------------------------------------------------ *)
AccessTag(i) ==
    IF i.mnemonic = MOV_STORE THEN SIG_SEGV_MMAP_WRITE ELSE SIG_SEGV_MMAP_READ

\* C5: a SIGSEGV stop whose instruction try_handle_rdtsc does not take for
\* rdtsc and whose fault address is protected ends with the mapped-write tag
\* for a write and the mapped-read tag for a read, ctx->child_sig = 0 and the
\* instruction emulated exactly once; the interceptor's result is nonzero for
\* both kinds of access.
C5_MmapOutcome ==
    /\ [][ (/\ pc = "try_mmap"
            /\ signal_pending(status) = SIGSEGV
            /\ is_protected_map(siginfo.si_addr))
           => (pc' = "mmap_emulate" /\ event' = AccessTag(inst)) ]_vars
    /\ [] ( pc \in {"mmap_emulate", "mmap_return"}
            => (/\ event = AccessTag(inst)
                /\ CountOp("emulate_child_inst")
                       = IF pc = "mmap_return" THEN 1 ELSE 0) )
    /\ [][ pc = "mmap_return"
           => (/\ pc' = "done"
               /\ mmap_event' = AccessTag(inst)
               /\ mmap_event' # 0
               /\ event' = AccessTag(inst)
               /\ child_sig' = 0
               /\ ops' = ops) ]_vars
    /\ [] ( (/\ Returned
             /\ Undisturbed
             /\ sig = SIGSEGV
             /\ ~IsRdtsc(inst)
             /\ is_protected_map(siginfo.si_addr))
            => (/\ event = AccessTag(inst)
                /\ child_sig = 0
                /\ CountOp("emulate_child_inst") = 1
                /\ regs.eip = child_regs.eip + inst.size) )

\* scenario 2: a write to a protected address
C5_Witness ==
    /\ Returned
    /\ sig = SIGSEGV
    /\ inst.mnemonic = MOV_STORE
    /\ is_protected_map(siginfo.si_addr)
    /\ event = SIG_SEGV_MMAP_WRITE
    /\ mmap_event = SIG_SEGV_MMAP_WRITE
    /\ child_sig = 0
    /\ CountOp("emulate_child_inst") = 1

(* ------------------------------------------------------------------ *)
(* C6                                                                  *)
(* ------------------------------------------------------------------ *)
\* C6: called for a SIGSEGV whose fault address is in no protected region,
\* try_handle_shared_mmap_access returns 0 and leaves ctx->event,
\* ctx->child_sig, the tracee's registers and memory as they were, without
\* calling emulate_child_inst.
C6_NotHandledLeavesState ==
    [][ (/\ pc = "try_mmap"
         /\ signal_pending(status) = SIGSEGV
         /\ ~is_protected_map(siginfo.si_addr))
        => (/\ pc' = "record"
            /\ mmap_event' = 0
            /\ event' = event
            /\ child_sig' = child_sig
            /\ regs' = regs
            /\ mem' = mem
            /\ event_writes' = event_writes
            /\ ops' = Append(ops, <<"getsiginfo">>)) ]_vars

\* the interceptor has returned 0 for an unprotected fault address
C6_Witness ==
    /\ pc = "record"
    /\ sig = SIGSEGV
    /\ signal_pending(status) = SIGSEGV
    /\ ~is_protected_map(siginfo.si_addr)
    /\ Len(ops) >= 1
    /\ ops[Len(ops)] = <<"getsiginfo">>
    /\ mmap_event = 0

(* ------------------------------------------------------------------ *)
(* C7                                                                  *)
(* ------------------------------------------------------------------ *)
AtSwitch == pc = "drain" /\ ~WRAP_SYSCALLS_CALLSITE_IN_WRAPPER(child_regs.eip)

\* C7: with SIGIO pending and a counter read >= MAX_RECORD_INTERVAL,
\* handle_signal stores the scheduler tag, sets ctx->child_sig to 0 and
\* returns without record_signal (nothing appended to the trace, no counter
\* reset, no single-step); with a read below it, record_signal is called
\* with SIGIO.
C7_SchedulerPolicy ==
    /\ [][ (AtSwitch /\ sig = SIGIO /\ hpc.rbc >= MAX_RECORD_INTERVAL)
           => (/\ pc' = "done"
               /\ event' = USR_SCHED
               /\ child_sig' = 0
               /\ trace_log' = trace_log
               /\ hpc' = hpc
               /\ tracee' = tracee) ]_vars
    /\ [][ (AtSwitch /\ sig = SIGIO /\ hpc.rbc < MAX_RECORD_INTERVAL)
           => (pc' = "record" /\ sig' = SIGIO /\ event' = event) ]_vars
    /\ [] ( (Returned /\ event_writes = <<USR_SCHED>>)
            => (/\ sig = SIGIO
                /\ trace_log = <<>>
                /\ ~HasOp("record_event")
                /\ ~HasOp("reset_hpc")
                /\ ~HasOp("singlestep_sig")) )

\* the counter read equals the budget
C7_Witness ==
    /\ Returned
    /\ sig = SIGIO
    /\ hpc.rbc = MAX_RECORD_INTERVAL
    /\ event = USR_SCHED
    /\ child_sig = 0
    /\ trace_log = <<>>

(* ------------------------------------------------------------------ *)
(* C8                                                                  *)
(* ------------------------------------------------------------------ *)
\* C8: while the instruction pointer of the snapshot is inside the wrapper
\* handle_signal only single-steps with signal 0, waits and refreshes
\* ctx->child_regs: ctx->event and ctx->child_sig are not written, nothing is
\* appended to the trace, no handler runs, no nonzero signal is delivered;
\* classification starts only with a snapshot outside the wrapper.
C8_DrainOnlySteps ==
    /\ [][ (pc \in DrainPcs /\ WRAP_SYSCALLS_CALLSITE_IN_WRAPPER(child_regs.eip))
           => (/\ pc' \in DrainPcs
               /\ step_sig' = 0
               /\ event' = event
               /\ child_sig' = child_sig
               /\ event_writes' = event_writes
               /\ trace_log' = trace_log
               /\ ops' = ops
               /\ mem' = mem
               /\ (tracee = "stopped" => regs' = regs)) ]_vars
    /\ [] ( pc \notin (DrainPcs \cup {"idle"})
            => ~WRAP_SYSCALLS_CALLSITE_IN_WRAPPER(child_regs.eip) )
    /\ [] ( pc \in DrainPcs => (event_writes = <<>> /\ ops = <<>>) )

\* recording starts after two iterations of the loop
C8_Witness ==
    /\ pc = "record"
    /\ steps >= 2
    /\ event_writes = <<>>
    /\ step_sig = 0

(* ------------------------------------------------------------------ *)
(* C9                                                                  *)
(* ------------------------------------------------------------------ *)
\* The recorder and the tracee both keep taking their steps.
FairSpec == Spec /\ WF_vars(Next) /\ WF_vars(TraceeStep)

\* C9: whatever signal (> 0) is pending, once handle_signal is in the drain loop
\* the instruction pointer eventually leaves the wrapper and handle_signal
\* eventually returns (or aborts).
C9_DrainTerminates ==
    (pc \in DrainPcs /\ sig > 0) ~> (pc \in {"done", "aborted"})

(* ------------------------------------------------------------------ *)
(* C10                                                                 *)
(* ------------------------------------------------------------------ *)
\* C10: for a SIGSEGV outside the wrapper try_handle_rdtsc runs first and
\* try_handle_shared_mmap_access only after it returned 0; an rdtsc with a
\* protected fault address gives the timestamp-trap outcome without
\* emulate_child_inst; either match sets ctx->child_sig to 0 and ends the
\* stop without record_signal.
C10_RdtscBeforeMmap ==
    /\ [][ (AtSwitch /\ sig = SIGSEGV) => pc' = "try_rdtsc" ]_vars
    /\ [][ (pc' = "try_mmap" /\ pc # "try_mmap") => pc = "try_rdtsc" ]_vars
    /\ [][ (/\ pc = "try_rdtsc"
            /\ signal_pending(status) = SIGSEGV
            /\ IsRdtsc(inst))
           => (pc' = "done" /\ event' = SIG_SEGV_RDTSC /\ child_sig' = 0) ]_vars
    /\ [] ( (Returned /\ HasOp("write_regs"))
            => (/\ event = SIG_SEGV_RDTSC
                /\ child_sig = 0
                /\ ops = << <<"get_inst">>, <<"read_regs">>, <<"write_regs">> >>
                /\ trace_log = <<>>) )
    /\ [] ( (Returned /\ HasOp("emulate_child_inst"))
            => (/\ event \in {SIG_SEGV_MMAP_READ, SIG_SEGV_MMAP_WRITE}
                /\ child_sig = 0
                /\ ops = << <<"get_inst">>, <<"getsiginfo">>,
                            <<"is_write_mem_instruction">>,
                            <<"emulate_child_inst">> >>
                /\ trace_log = <<>>) )
    /\ [] ( (/\ Returned
             /\ Undisturbed
             /\ sig = SIGSEGV
             /\ inst.mnemonic = RDTSC
             /\ is_protected_map(siginfo.si_addr))
            => (event = SIG_SEGV_RDTSC /\ ~HasOp("emulate_child_inst")) )

\* an rdtsc whose fault address is protected was resolved as a timestamp trap
C10_Witness ==
    /\ Returned
    /\ Undisturbed
    /\ sig = SIGSEGV
    /\ inst.mnemonic = RDTSC
    /\ is_protected_map(siginfo.si_addr)
    /\ event = SIG_SEGV_RDTSC
    /\ child_sig = 0

(* ------------------------------------------------------------------ *)
(* C11                                                                 *)
(* ------------------------------------------------------------------ *)
\* handle_signal is entered for a SIGSEGV whose instruction is not rdtsc and
\* whose fault address is in no protected region.
UnrecognizedSegv ==
    /\ pc = "idle"
    /\ signal_pending(status) = SIGSEGV
    /\ ~IsRdtsc(inst)
    /\ ~is_protected_map(siginfo.si_addr)

\* The interceptors have stopped the recorder, or have resolved the stop
\* themselves: an assertion of theirs failed (the only abort before
\* record_signal's event is logged), or one of them wrote the tracee's
\* registers, emulated the instruction or stored to ctx->event.
InterceptorsActed ==
    \/ pc = "aborted" /\ ~HasOp("record_event")
    \/ HasOp("write_regs")
    \/ HasOp("emulate_child_inst")
    \/ \E i \in 1..Len(event_writes) : event_writes[i] \in SyntheticTags

\* C11 as stated: a pending SIGSEGV whose instruction is not rdtsc and whose
\* fault address is not protected is never an error and is never touched by
\* the interceptors; when handle_signal returns, record_signal has recorded it
\* as a genuine SIGSEGV.
C11_UnrecognizedSegvIsRecorded ==
    [] ( UnrecognizedSegv =>
           [] ( /\ ~InterceptorsActed
                /\ Returned => /\ event \in GenuineTags(SIGSEGV)
                               /\ child_sig = SIGSEGV
                               /\ Len(trace_log) = 2 ) )

(* ------------------------------------------------------------------ *)
(* C12                                                                 *)
(* ------------------------------------------------------------------ *)
\* C12: a retired-instruction count that is not zero right after reset_hpc
\* aborts record_signal at line 178: the tracee is not single-stepped, the
\* signal is not delivered, no frame data is persisted and record_signal
\* never goes on.
C12_NonzeroCountAborts ==
    /\ [][ (pc = "rec_assert" /\ hpc.insts # 0)
           => (/\ pc' = "aborted"
               /\ tracee' = tracee
               /\ step_sig' = step_sig
               /\ trace_log' = trace_log
               /\ ops' = ops) ]_vars
    /\ [][ pc = "aborted" => pc' = "aborted" ]_vars
    /\ [] ( pc \in {"rec_step", "rec_wait", "rec_frame"} => HasOp("reset_hpc") )
    /\ [] ( pc = "rec_step" => hpc.insts = 0 )
    /\ [] ( (pc = "aborted" /\ HasOp("reset_hpc"))
            => (/\ hpc.insts # 0
                /\ tracee = "stopped"
                /\ step_sig = 0
                /\ ~HasOp("singlestep_sig")
                /\ ~HasOp("waitpid")
                /\ ~HasOp("record_child_data")
                /\ Len(trace_log) = 1
                /\ trace_log[1].kind = "event") )

\* record_signal has aborted on a count the reset left behind
C12_Witness ==
    /\ pc = "aborted"
    /\ HasOp("reset_hpc")
    /\ hpc.insts # 0
    /\ sig > 0
    /\ child_sig = sig

RecordOps(s, e) ==
    << <<"set_child_sig", s>>, <<"getsiginfo">>, <<"record_event", e>>,
       <<"reset_hpc", MAX_RECORD_INTERVAL>>, <<"singlestep_sig", s>>,
       <<"waitpid">>, <<"read_insts">>, <<"read_regs">>,
       <<"record_child_data", e>> >>

\* How many of them are done when record_signal is at each of its lines.
RecordProgress ==
    [rec_event |-> 2, rec_reset |-> 3, rec_assert |-> 4, rec_step |-> 4,
     rec_wait |-> 5, rec_frame |-> 6, done |-> 9, aborted |-> 4]

\* The operations of the invocation from record_signal's first one on.
RecordSuffix ==
    LET k == CHOOSE i \in 1..Len(ops) : ops[i][1] = "set_child_sig"
    IN  SubSeq(ops, k, Len(ops))

\* C14: a call of record_signal with sig > 0 sets ctx->child_sig and the tag,
\* logs the event, resets the counter, single-steps the tracee with that same
\* sig, waits, reads the count, reads the registers and persists the frame
\* region at the stack pointer of the stop after the step under the same
\* event: each once, in that order, nothing in between.
C14_RecordSequence ==
    /\ HasOp("set_child_sig") <=>
           \/ pc \in {"rec_event", "rec_reset", "rec_assert", "rec_step",
                      "rec_wait", "rec_frame"}
           \/ pc = "done" /\ trace_log # <<>>
           \/ pc = "aborted" /\ trace_log # <<>>
    /\ HasOp("set_child_sig") =>
           /\ sig > 0
           /\ child_sig = sig
           /\ RecordSuffix = SubSeq(RecordOps(sig, event), 1, RecordProgress[pc])
           /\ \A n \in {"set_child_sig", "record_event", "reset_hpc",
                        "singlestep_sig", "waitpid", "read_insts", "read_regs",
                        "record_child_data"} : CountOp(n) <= 1
           /\ pc \in {"rec_wait", "rec_frame", "done"} => step_sig = sig
           /\ Len(trace_log) = IF pc = "rec_event" THEN 0
                               ELSE IF pc = "done" THEN 2 ELSE 1
           /\ Len(trace_log) >= 1 =>
                  trace_log[1] = [kind |-> "event", event |-> event,
                                  len |-> 0, addr |-> 0]
           /\ pc = "done" =>
                  /\ trace_log[2].kind = "data"
                  /\ trace_log[2].event = event
                  /\ trace_log[2].addr = regs.esp

\* record_signal has gone through all of its steps for a SIGUSR1
C14_Witness ==
    /\ Returned
    /\ sig = SIGUSR1
    /\ HasOp("record_child_data")
    /\ Len(ops) = 9
    /\ step_sig = SIGUSR1

(* ------------------------------------------------------------------ *)
(* C15                                                                 *)
(* ------------------------------------------------------------------ *)
\* C15: the frame region record_signal persists is 1024 bytes long exactly
\* when the retired-instruction count read after the single-step is 0 and is
\* empty when that count is not 0; it starts at the stack pointer the tracee
\* has after the step.
C15_FrameRegion ==
    (Returned /\ HasOp("record_child_data")) =>
        LET frame == trace_log[Len(trace_log)]
        IN  /\ frame.kind = "data"
            /\ frame.len \in {0, 1024}
            /\ (frame.len = 1024) <=> (hpc.insts = 0)
            /\ (frame.len = 0) <=> (hpc.insts # 0)
            /\ frame.addr = regs.esp

\* the step entered a handler: no instruction retired, the frame was pushed
\* below the stack pointer of the stop, and 1024 bytes were persisted there
C15_Witness ==
    /\ Returned
    /\ HasOp("record_child_data")
    /\ hpc.insts = 0
    /\ regs.esp = StackTop - SigFrame
    /\ trace_log[2].len = 1024
    /\ trace_log[2].addr = StackTop - SigFrame

\* the step retired an instruction: an empty region was persisted
C15_WitnessNoFrame ==
    /\ Returned
    /\ HasOp("record_child_data")
    /\ hpc.insts # 0
    /\ trace_log[2].len = 0

(* ------------------------------------------------------------------ *)
(* C16                                                                 *)
(* ------------------------------------------------------------------ *)
\* C16: try_handle_shared_mmap_access stores the mapped-read or mapped-write
\* tag of the access in ctx->event before emulate_child_inst runs: the step
\* that performs the access and moves the instruction pointer starts from a
\* state whose ctx->event already is that tag, and in no state has the
\* emulation happened while ctx->event is something else.
C16_TagBeforeEmulation ==
    /\ [][ (~HasOp("emulate_child_inst") /\ HasOp("emulate_child_inst")')
           => (/\ event = AccessTag(inst)
               /\ event' = event
               /\ event_writes # <<>>
               /\ event_writes[Len(event_writes)] = event
               /\ event_writes' = event_writes
               /\ regs'.eip = regs.eip + inst.size) ]_vars
    /\ [][ (mem' # mem \/ (pc \in {"try_mmap", "mmap_emulate", "mmap_return"}
                           /\ regs' # regs))
           => (/\ pc = "mmap_emulate"
               /\ event \in {SIG_SEGV_MMAP_READ, SIG_SEGV_MMAP_WRITE}
               /\ event = AccessTag(inst)
               /\ HasOp("emulate_child_inst")') ]_vars
    /\ [] ( HasOp("emulate_child_inst") => event = AccessTag(inst) )

\* a store to a protected address has been emulated under the mapped-write tag
C16_Witness ==
    /\ pc = "mmap_return"
    /\ HasOp("emulate_child_inst")
    /\ event = SIG_SEGV_MMAP_WRITE
    /\ event_writes = <<SIG_SEGV_MMAP_WRITE>>
    /\ mem = 1
    /\ regs.eip = child_regs.eip + 3

(* ------------------------------------------------------------------ *)
(* C17                                                                 *)
(* ------------------------------------------------------------------ *)
\* handle_signal is in one of its two calls of sys_waitpid.
Waiting == pc \in {"drain_wait", "rec_wait"}

\* What the recorder holds and has done: every variable it writes.
recorder == <<pc, sig, status, child_regs, child_sig, event, mmap_event,
              step_sig, mem, trace_log, ops, event_writes, steps>>

\* C17: the recorder and the tracee take turns.  A single-step is issued to a
\* stopped tracee only and puts the recorder in sys_waitpid; while the tracee
\* runs the recorder does nothing (no register read or write, counter read,
\* instruction fetch, fault-info read or single-step); the wait returns only
\* once the tracee has stopped; and when handle_signal returns or aborts the
\* tracee is stopped.
C17_TurnsAlternate ==
    /\ [] ( tracee = "running" => Waiting )
    /\ [] ( tracee \in {"running", "stopped"} )
    /\ [][ tracee = "running"
           => (recorder' = recorder /\ tracee' = "stopped") ]_vars
    /\ [][ (tracee = "stopped" /\ tracee' = "running")
           => (~Waiting /\ Waiting') ]_vars
    /\ [][ (Waiting /\ pc' # pc)
           => (/\ tracee = "stopped"
               /\ tracee' = "stopped"
               /\ status' = wstatus
               /\ regs' = regs
               /\ hpc' = hpc) ]_vars
    /\ [][ (~Waiting /\ Waiting') => tracee' = "running" ]_vars
    /\ [] ( pc \in {"done", "aborted"} => tracee = "stopped" )

\* handle_signal has returned after a drain step and record_signal's step,
\* each waited for
C17_Witness ==
    /\ Returned
    /\ steps >= 1
    /\ HasOp("singlestep_sig")
    /\ HasOp("waitpid")
    /\ tracee = "stopped"

(* ------------------------------------------------------------------ *)
(* C18                                                                 *)
(* ------------------------------------------------------------------ *)
\* handle_signal is inside one of the two interceptors it calls for SIGSEGV.
InInterceptor == pc \in {"try_rdtsc", "try_mmap", "mmap_emulate", "mmap_return"}

\* C18 as stated: whenever handle_signal dispatches on SIGSEGV, the signal the
\* interceptors re-derive from ctx->status is that SIGSEGV, after drain
\* iterations too: their guards pass and their assertions on SIGTRAP never
\* fail (the only abort is record_signal's, after reset_hpc).
C18_InterceptorsSeeDispatchedSignal ==
    /\ InInterceptor => (sig = SIGSEGV /\ signal_pending(status) = sig)
    /\ pc = "aborted" => HasOp("reset_hpc")

(* ------------------------------------------------------------------ *)
(* C19                                                                 *)
(* ------------------------------------------------------------------ *)
\* C19 as stated: over a sequence of stops on one context, ctx->child_sig
\* after each return is 0 or the signal of the stop just processed, never
\* what an earlier stop left, and it is 0 when the outcome is a synthetic
\* fault or a scheduler preemption.
C19_ChildSigOfThisStop ==
    Returned =>
        /\ child_sig \in {0, sig}
        /\ event_writes # <<>> =>
               (event \in SyntheticTags \cup {USR_SCHED} => child_sig = 0)

\* C19 amended: after the return from a stop whose pending signal is > 0,
\* ctx->child_sig is 0 when the outcome is a synthetic fault or a scheduler
\* preemption and is that signal when the outcome is a genuine signal; a stop
\* without a pending signal (sig <= 0) is returned from with ctx->child_sig
\* untouched, whatever the stop before left in it.
C19_ChildSigOfSignalStops ==
    /\ [] ( (Returned /\ sig > 0) =>
              /\ child_sig \in {0, sig}
              /\ (event \in SyntheticTags \cup {USR_SCHED}) <=> (child_sig = 0)
              /\ (event \in GenuineTags(sig)) <=> (child_sig = sig) )
    /\ [][ (pc = "idle" \/ sig <= 0) => child_sig' = child_sig ]_vars
    /\ [][ child_sig' # child_sig
           => (/\ sig > 0
               /\ child_sig' \in {0, sig}
               /\ child_sig' = 0 => pc' = "done") ]_vars

\* a second stop without a pending signal has been returned from, and
\* ctx->child_sig still is the SIGUSR1 recorded for the first stop
C19_Witness ==
    /\ Returned
    /\ stops = 2
    /\ sig <= 0
    /\ child_sig = SIGUSR1
    /\ ops = <<>>

(* ------------------------------------------------------------------ *)
(* C20                                                                 *)
(* ------------------------------------------------------------------ *)
\* C20 as stated: when handle_signal returns, on every path, the snapshot
\* ctx->child_regs equals the register file of the stopped tracee.
C20_SnapshotIsCurrent ==
    Returned => (tracee = "stopped" /\ child_regs = regs)

====
